---- MODULE Spec2Model ----
(***************************************************************************)
(* Model of fpds.hpp: the background grid (struct grid) and the two        *)
(* dart-throwing samplers fast_poisson_disk_2d and fast_poisson_disk_3d.   *)
(*                                                                         *)
(* World coordinates are points of an integer lattice.  The separation     *)
(* distance r enters the code only through r * r (the distance test) and   *)
(* through r / sqrtf(2) (the cell size), so the model carries r2 = r * r   *)
(* and takes r2 = 2 * c * c, which makes the cell size the integer c and   *)
(* every comparison of the code exact.  A random draw is a \E over the     *)
(* lattice values the drawn expression can take.                           *)
(***************************************************************************)
EXTENDS Integers, Sequences, FiniteSets, TLC

\* Largest attempt budget k a call is made with.
MaxK == 2
\* Lattice units per grid cell of the 2D call (r * r = 2 * Cell * Cell), and its domain.
Cell == 3
ExtentX == 7
ExtentY == 5
\* Lattice units per grid cell of the 3D call, and its domain.
Cell3 == 1
Extent3X == 2
Extent3Y == 2
Extent3Z == 2
\* Largest cell coordinate, above and below the grid, a grid client passes.
MaxOver == 1

\* #define NO_SAMPLE -1
NO_SAMPLE == 0 - 1

\* No grid accessor has been called by a grid client.
NoCall == [op |-> "none", in_range |-> TRUE, result |-> "none", value |-> NO_SAMPLE]

VARIABLES
    fn,                        \* which sampler was called: "2d" or "3d"
    dimensions, r2, k,         \* the call's arguments (r2 is r * r)
    g,                         \* grid g
    active_list, point_list,   \* std::vector<int>, std::vector<vec>
    sample_index,
    index,                     \* position drawn in the active list
    sample_world_coordinates,
    found_sample,
    i,                         \* attempt counter of the for loop
    pc,                        \* position in the function
    outcome                    \* last grid accessor call of a grid client

vars == <<fn, dimensions, r2, k, g, active_list, point_list, sample_index,
          index, sample_world_coordinates, found_sample, i, pc, outcome>>

sampler_vars == <<active_list, point_list, sample_index, index,
                  sample_world_coordinates, found_sample, i>>

----------------------------------------------------------------------------
\* Vector types and helpers.

vec2(x, y) == [x |-> x, y |-> y]

vec3(x, y, z) == [x |-> x, y |-> y, z |-> z]

ivec2(x, y) == [x |-> x, y |-> y]

ivec3(x, y, z) == [x |-> x, y |-> y, z |-> z]

distance2_vec2(a, b) == (a.x - b.x) * (a.x - b.x) + (a.y - b.y) * (a.y - b.y)

distance2_vec3(a, b) ==
    (a.x - b.x) * (a.x - b.x) + (a.y - b.y) * (a.y - b.y) + (a.z - b.z) * (a.z - b.z)

\* uniform_int_distribution(min, max): the closed range.
uniform_int_distribution(min, max) == min .. max

\* uniform_real_distribution(min, max): the half-open range [min, max), on the lattice.
uniform_real_distribution(min, max) == min .. (max - 1)

\* The cell count rounded down.
Ceil_Truncated(a, b) == a \div b

\* ceil(a / b) and floor(a / b) for b > 0.
Ceil(a, b) == (a + b - 1) \div b

Floor(a, b) == a \div b

\* separation_distance / sqrtf(2.0f), computed from r2 = r * r.
CellSize(rr) == CHOOSE c \in 1 .. rr : 2 * c * c = rr

----------------------------------------------------------------------------
\* struct grid

grid_vec2(dims, rr) ==
    LET cell_size == CellSize(rr)
        grid_width == Ceil(dims.x, cell_size)
        grid_height == Ceil(dims.y, cell_size)
        grid_size == grid_width * grid_height
    IN  [cell_size |-> cell_size, grid_width |-> grid_width,
         grid_height |-> grid_height, grid_depth |-> 0 - 1,
         grid_size |-> grid_size,
         grid_data |-> [j \in 0 .. (grid_size - 1) |-> NO_SAMPLE]]

grid_vec3(dims, rr) ==
    LET cell_size == CellSize(rr)
        grid_width == Ceil(dims.x, cell_size)
        grid_height == Ceil(dims.y, cell_size)
        grid_depth == Ceil(dims.z, cell_size)
        grid_size == grid_width * grid_height * grid_depth
    IN  [cell_size |-> cell_size, grid_width |-> grid_width,
         grid_height |-> grid_height, grid_depth |-> grid_depth,
         grid_size |-> grid_size,
         grid_data |-> [j \in 0 .. (grid_size - 1) |-> NO_SAMPLE]]

\* The flat index of get(x, y) / set(value, x, y).
flat2(gr, x, y) == x + gr.grid_width * y

\* The flat index with grid_height where the code has grid_depth.
flat3_HeightStride(gr, x, y, z) == x + gr.grid_width * z + gr.grid_width * gr.grid_height * y

\* The flat index of get(x, y, z) / set(value, x, y, z).
flat3(gr, x, y, z) == x + gr.grid_width * z + gr.grid_width * gr.grid_depth * y

get2(gr, x, y) == gr.grid_data[flat2(gr, x, y)]

set2(gr, value, x, y) ==
    [gr EXCEPT !.grid_data = [gr.grid_data EXCEPT ![flat2(gr, x, y)] = value]]

get3(gr, x, y, z) == gr.grid_data[flat3(gr, x, y, z)]

set3(gr, value, x, y, z) ==
    [gr EXCEPT !.grid_data = [gr.grid_data EXCEPT ![flat3(gr, x, y, z)] = value]]

convert_to_grid_coordinates_vec2(gr, w) ==
    ivec2(Floor(w.x, gr.cell_size), Floor(w.y, gr.cell_size))

convert_to_grid_coordinates_vec3(gr, w) ==
    ivec3(Floor(w.x, gr.cell_size), Floor(w.y, gr.cell_size), Floor(w.z, gr.cell_size))

----------------------------------------------------------------------------
\* The lattice values of the random expressions of the samplers.

\* The largest m with m * m < 4 * rr: no offset of radius < 2r is longer on an axis.
Reach(rr) == CHOOSE m \in 0 .. (2 * rr) : m * m < 4 * rr /\ (m + 1) * (m + 1) >= 4 * rr

\* (radius * cosf(radians), radius * sinf(radians)), radians in [0, 2 PI), radius in [r, 2r).
Offsets2d(rr) ==
    {o \in [x : (0 - Reach(rr)) .. Reach(rr), y : (0 - Reach(rr)) .. Reach(rr)] :
        /\ o.x * o.x + o.y * o.y >= rr
        /\ o.x * o.x + o.y * o.y < 4 * rr}

\* radius * (cosf(theta) sinf(phi), sinf(theta) sinf(phi), cosf(phi)), theta in [0, 2 PI),
\* phi in [0, PI), radius in [r, 2r): phi = PI is never drawn, so the offset straight
\* down the z axis is not among them.
Offsets3d(rr) ==
    {o \in [x : (0 - Reach(rr)) .. Reach(rr), y : (0 - Reach(rr)) .. Reach(rr),
            z : (0 - Reach(rr)) .. Reach(rr)] :
        /\ o.x * o.x + o.y * o.y + o.z * o.z >= rr
        /\ o.x * o.x + o.y * o.y + o.z * o.z < 4 * rr
        /\ ~(o.x = 0 /\ o.y = 0 /\ o.z < 0)}

\* erase(first, last) with last = end(): everything from pos on is removed.
erase_ToEnd(list, pos) == SubSeq(list, 1, pos)

\* active_list.erase(active_list.begin() + pos)
erase(list, pos) == [j \in 1 .. (Len(list) - 1) |-> IF j <= pos THEN list[j] ELSE list[j + 1]]

----------------------------------------------------------------------------
\* fast_poisson_disk_2d

\* The test with the upper bound of x taken inclusive.
out_of_bounds_2d_UpperInclusive(t, dims) ==
    t.x < 0 \/ t.x > dims.x \/ t.y < 0 \/ t.y >= dims.y

\* The out-of-bounds test on a candidate.
out_of_bounds_2d(t, dims) == t.x < 0 \/ t.x >= dims.x \/ t.y < 0 \/ t.y >= dims.y

\* valid_sample after the sweep over the cells adjacent to the candidate's cell.
valid_sample_2d(gr, points, t, cell, rr) ==
    \A y \in (0 - 1) .. 1 : \A x \in (0 - 1) .. 1 :
        LET x_offset == cell.x + x
            y_offset == cell.y + y
        IN  \/ x = 0 /\ y = 0
            \/ x_offset < 0 \/ x_offset >= gr.grid_width
            \/ y_offset < 0 \/ y_offset >= gr.grid_height
            \/ get2(gr, x_offset, y_offset) = NO_SAMPLE
            \/ ~(distance2_vec2(points[get2(gr, x_offset, y_offset) + 1], t) < rr)

\* The test of the for loop, one pass too many.
for_test_2d_Inclusive(ii, kk) == ii <= kk

\* Line 171: the test of the for loop.
for_test_2d(ii, kk) == ii < kk

\* Start2d without ++sample_index.
Start2d_NoIncrement ==
    /\ pc = "start" /\ fn = "2d"
    /\ \E sx \in uniform_real_distribution(0, dimensions.x),
          sy \in uniform_real_distribution(0, dimensions.y) :
        LET gr == grid_vec2(dimensions, r2)
            s == vec2(sx, sy)
            c == convert_to_grid_coordinates_vec2(gr, s)
        IN  /\ g' = set2(gr, 0, c.x, c.y)
            /\ sample_world_coordinates' = s
            /\ point_list' = Append(point_list, s)
            /\ active_list' = Append(active_list, 0)
            /\ sample_index' = 0
    /\ pc' = "loop"
    /\ UNCHANGED <<fn, dimensions, r2, k, index, found_sample, i, outcome>>

\* Start2d without the g.set of the initial sample.
Start2d_SeedNotRecorded ==
    /\ pc = "start" /\ fn = "2d"
    /\ \E sx \in uniform_real_distribution(0, dimensions.x),
          sy \in uniform_real_distribution(0, dimensions.y) :
        LET gr == grid_vec2(dimensions, r2)
            s == vec2(sx, sy)
            c == convert_to_grid_coordinates_vec2(gr, s)
        IN  /\ g' = gr
            /\ sample_world_coordinates' = s
            /\ point_list' = Append(point_list, s)
            /\ active_list' = Append(active_list, 0)
            /\ sample_index' = 1
    /\ pc' = "loop"
    /\ UNCHANGED <<fn, dimensions, r2, k, index, found_sample, i, outcome>>

\* Lines 143-161: the grid is built and the initial sample drawn and recorded.
Start2d ==
    /\ pc = "start" /\ fn = "2d"
    /\ \E sx \in uniform_real_distribution(0, dimensions.x),
          sy \in uniform_real_distribution(0, dimensions.y) :
        LET gr == grid_vec2(dimensions, r2)
            s == vec2(sx, sy)
            c == convert_to_grid_coordinates_vec2(gr, s)
        IN  /\ g' = set2(gr, 0, c.x, c.y)
            /\ sample_world_coordinates' = s
            /\ point_list' = Append(point_list, s)
            /\ active_list' = Append(active_list, 0)
            /\ sample_index' = 1
    /\ pc' = "loop"
    /\ UNCHANGED <<fn, dimensions, r2, k, index, found_sample, i, outcome>>

\* Lines 163-168: the while test passes and a position of the active list is drawn.
ChooseParent2d ==
    /\ pc = "loop" /\ fn = "2d"
    /\ active_list # <<>>
    /\ \E pos \in uniform_int_distribution(0, Len(active_list) - 1) :
        /\ index' = pos
        /\ sample_world_coordinates' = point_list[pos + 1]
    /\ found_sample' = FALSE
    /\ i' = 0
    /\ pc' = "attempt"
    /\ UNCHANGED <<fn, dimensions, r2, k, g, active_list, point_list, sample_index, outcome>>

\* Attempt2d without the test of the candidate's own cell (lines 190-193).
Attempt2d_NoOccupiedTest ==
    /\ pc = "attempt" /\ fn = "2d"
    /\ for_test_2d(i, k)
    /\ \E o \in Offsets2d(r2) :
        LET t == vec2(sample_world_coordinates.x + o.x, sample_world_coordinates.y + o.y)
            cell == convert_to_grid_coordinates_vec2(g, t)
        IN  IF out_of_bounds_2d(t, dimensions)
            THEN /\ i' = i + 1
                 /\ UNCHANGED <<g, point_list, active_list, sample_index, found_sample, pc>>
            ELSE IF valid_sample_2d(g, point_list, t, cell, r2)
            THEN /\ g' = set2(g, sample_index, cell.x, cell.y)
                 /\ point_list' = Append(point_list, t)
                 /\ active_list' = Append(active_list, sample_index)
                 /\ sample_index' = sample_index + 1
                 /\ found_sample' = TRUE
                 /\ pc' = "loop"
                 /\ UNCHANGED i
            ELSE /\ i' = i + 1
                 /\ UNCHANGED <<g, point_list, active_list, sample_index, found_sample, pc>>
    /\ UNCHANGED <<fn, dimensions, r2, k, index, sample_world_coordinates, outcome>>

\* Attempt2d recording the drawn position, not sample_index, in the active list.
Attempt2d_PushIndex ==
    /\ pc = "attempt" /\ fn = "2d"
    /\ for_test_2d(i, k)
    /\ \E o \in Offsets2d(r2) :
        LET t == vec2(sample_world_coordinates.x + o.x, sample_world_coordinates.y + o.y)
            cell == convert_to_grid_coordinates_vec2(g, t)
        IN  IF out_of_bounds_2d(t, dimensions)
            THEN /\ i' = i + 1
                 /\ UNCHANGED <<g, point_list, active_list, sample_index, found_sample, pc>>
            ELSE IF get2(g, cell.x, cell.y) # NO_SAMPLE
            THEN /\ i' = i + 1
                 /\ UNCHANGED <<g, point_list, active_list, sample_index, found_sample, pc>>
            ELSE IF valid_sample_2d(g, point_list, t, cell, r2)
            THEN /\ g' = set2(g, sample_index, cell.x, cell.y)
                 /\ point_list' = Append(point_list, t)
                 /\ active_list' = Append(active_list, index)
                 /\ sample_index' = sample_index + 1
                 /\ found_sample' = TRUE
                 /\ pc' = "loop"
                 /\ UNCHANGED i
            ELSE /\ i' = i + 1
                 /\ UNCHANGED <<g, point_list, active_list, sample_index, found_sample, pc>>
    /\ UNCHANGED <<fn, dimensions, r2, k, index, sample_world_coordinates, outcome>>

\* Lines 171-245: one pass of the for loop.
Attempt2d ==
    /\ pc = "attempt" /\ fn = "2d"
    /\ for_test_2d(i, k)
    /\ \E o \in Offsets2d(r2) :
        LET t == vec2(sample_world_coordinates.x + o.x, sample_world_coordinates.y + o.y)
            cell == convert_to_grid_coordinates_vec2(g, t)
        IN  IF out_of_bounds_2d(t, dimensions)
            THEN /\ i' = i + 1
                 /\ UNCHANGED <<g, point_list, active_list, sample_index, found_sample, pc>>
            ELSE IF get2(g, cell.x, cell.y) # NO_SAMPLE
            THEN /\ i' = i + 1
                 /\ UNCHANGED <<g, point_list, active_list, sample_index, found_sample, pc>>
            ELSE IF valid_sample_2d(g, point_list, t, cell, r2)
            THEN /\ g' = set2(g, sample_index, cell.x, cell.y)
                 /\ point_list' = Append(point_list, t)
                 /\ active_list' = Append(active_list, sample_index)
                 /\ sample_index' = sample_index + 1
                 /\ found_sample' = TRUE
                 /\ pc' = "loop"
                 /\ UNCHANGED i
            ELSE /\ i' = i + 1
                 /\ UNCHANGED <<g, point_list, active_list, sample_index, found_sample, pc>>
    /\ UNCHANGED <<fn, dimensions, r2, k, index, sample_world_coordinates, outcome>>

\* Exhaust2d without the erase.
Exhaust2d_NoErase ==
    /\ pc = "attempt" /\ fn = "2d"
    /\ ~for_test_2d(i, k)
    /\ ~found_sample
    /\ pc' = "loop"
    /\ UNCHANGED <<fn, dimensions, r2, k, g, active_list, point_list, sample_index, index,
                   sample_world_coordinates, found_sample, i, outcome>>

\* Lines 171, 247-251: the for loop ends without a sample and the drawn position is erased.
Exhaust2d ==
    /\ pc = "attempt" /\ fn = "2d"
    /\ ~for_test_2d(i, k)
    /\ ~found_sample
    /\ active_list' = erase(active_list, index)
    /\ pc' = "loop"
    /\ UNCHANGED <<fn, dimensions, r2, k, g, point_list, sample_index, index,
                   sample_world_coordinates, found_sample, i, outcome>>

\* Return2d leaving the while loop with one entry still active.
Return2d_Early ==
    /\ pc = "loop" /\ fn = "2d"
    /\ Len(active_list) <= 1
    /\ pc' = "done"
    /\ UNCHANGED <<fn, dimensions, r2, k, g, active_list, point_list, sample_index, index,
                   sample_world_coordinates, found_sample, i, outcome>>

\* Lines 163, 254: the active list is empty and point_list is returned.
Return2d ==
    /\ pc = "loop" /\ fn = "2d"
    /\ active_list = <<>>
    /\ pc' = "done"
    /\ UNCHANGED <<fn, dimensions, r2, k, g, active_list, point_list, sample_index, index,
                   sample_world_coordinates, found_sample, i, outcome>>

----------------------------------------------------------------------------
\* fast_poisson_disk_3d

\* The out-of-bounds test on a candidate.
out_of_bounds_3d(t, dims) ==
    \/ t.x < 0 \/ t.x >= dims.x
    \/ t.y < 0 \/ t.y >= dims.y
    \/ t.z < 0 \/ t.z >= dims.z

\* valid_sample after the sweep over the cells adjacent to the candidate's cell.
valid_sample_3d(gr, points, t, cell, rr) ==
    \A y \in (0 - 1) .. 1 : \A x \in (0 - 1) .. 1 : \A z \in (0 - 1) .. 1 :
        LET x_offset == cell.x + x
            y_offset == cell.y + y
            z_offset == cell.z + z
        IN  \/ x = 0 /\ y = 0 /\ z = 0
            \/ x_offset < 0 \/ x_offset >= gr.grid_width
            \/ y_offset < 0 \/ y_offset >= gr.grid_height
            \/ z_offset < 0 \/ z_offset >= gr.grid_depth
            \/ get3(gr, x_offset, y_offset, z_offset) = NO_SAMPLE
            \/ ~(distance2_vec3(points[get3(gr, x_offset, y_offset, z_offset) + 1], t) < rr)

\* Line 292: the test of the for loop.
for_test_3d(ii, kk) == ii < kk

\* Lines 263-282: the grid is built and the initial sample drawn and recorded.
Start3d ==
    /\ pc = "start" /\ fn = "3d"
    /\ \E sx \in uniform_real_distribution(0, dimensions.x),
          sy \in uniform_real_distribution(0, dimensions.y),
          sz \in uniform_real_distribution(0, dimensions.z) :
        LET gr == grid_vec3(dimensions, r2)
            s == vec3(sx, sy, sz)
            c == convert_to_grid_coordinates_vec3(gr, s)
        IN  /\ g' = set3(gr, 0, c.x, c.y, c.z)
            /\ sample_world_coordinates' = s
            /\ point_list' = Append(point_list, s)
            /\ active_list' = Append(active_list, 0)
            /\ sample_index' = 1
    /\ pc' = "loop"
    /\ UNCHANGED <<fn, dimensions, r2, k, index, found_sample, i, outcome>>

\* Lines 284-289: the while test passes and a position of the active list is drawn.
ChooseParent3d ==
    /\ pc = "loop" /\ fn = "3d"
    /\ active_list # <<>>
    /\ \E pos \in uniform_int_distribution(0, Len(active_list) - 1) :
        /\ index' = pos
        /\ sample_world_coordinates' = point_list[pos + 1]
    /\ found_sample' = FALSE
    /\ i' = 0
    /\ pc' = "attempt"
    /\ UNCHANGED <<fn, dimensions, r2, k, g, active_list, point_list, sample_index, outcome>>

\* Lines 292-379: one pass of the for loop.
Attempt3d ==
    /\ pc = "attempt" /\ fn = "3d"
    /\ for_test_3d(i, k)
    /\ \E o \in Offsets3d(r2) :
        LET t == vec3(sample_world_coordinates.x + o.x, sample_world_coordinates.y + o.y,
                      sample_world_coordinates.z + o.z)
            cell == convert_to_grid_coordinates_vec3(g, t)
        IN  IF out_of_bounds_3d(t, dimensions)
            THEN /\ i' = i + 1
                 /\ UNCHANGED <<g, point_list, active_list, sample_index, found_sample, pc>>
            ELSE IF get3(g, cell.x, cell.y, cell.z) # NO_SAMPLE
            THEN /\ i' = i + 1
                 /\ UNCHANGED <<g, point_list, active_list, sample_index, found_sample, pc>>
            ELSE IF valid_sample_3d(g, point_list, t, cell, r2)
            THEN /\ g' = set3(g, sample_index, cell.x, cell.y, cell.z)
                 /\ point_list' = Append(point_list, t)
                 /\ active_list' = Append(active_list, sample_index)
                 /\ sample_index' = sample_index + 1
                 /\ found_sample' = TRUE
                 /\ pc' = "loop"
                 /\ UNCHANGED i
            ELSE /\ i' = i + 1
                 /\ UNCHANGED <<g, point_list, active_list, sample_index, found_sample, pc>>
    /\ UNCHANGED <<fn, dimensions, r2, k, index, sample_world_coordinates, outcome>>

\* Lines 292, 381-385: the for loop ends without a sample and the drawn position is erased.
Exhaust3d ==
    /\ pc = "attempt" /\ fn = "3d"
    /\ ~for_test_3d(i, k)
    /\ ~found_sample
    /\ active_list' = erase(active_list, index)
    /\ pc' = "loop"
    /\ UNCHANGED <<fn, dimensions, r2, k, g, point_list, sample_index, index,
                   sample_world_coordinates, found_sample, i, outcome>>

\* Lines 284, 388: the active list is empty and point_list is returned.
Return3d ==
    /\ pc = "loop" /\ fn = "3d"
    /\ active_list = <<>>
    /\ pc' = "done"
    /\ UNCHANGED <<fn, dimensions, r2, k, g, active_list, point_list, sample_index, index,
                   sample_world_coordinates, found_sample, i, outcome>>

----------------------------------------------------------------------------
\* The calls made.

Calls ==
    {[fn |-> "2d", dimensions |-> vec2(ExtentX, ExtentY), r2 |-> 2 * Cell * Cell],
     [fn |-> "3d", dimensions |-> vec3(Extent3X, Extent3Y, Extent3Z), r2 |-> 2 * Cell3 * Cell3]}

Init ==
    /\ \E c \in Calls :
        /\ fn = c.fn
        /\ dimensions = c.dimensions
        /\ r2 = c.r2
        /\ sample_world_coordinates = IF c.fn = "2d" THEN vec2(0, 0) ELSE vec3(0, 0, 0)
    /\ k \in (0 - 1) .. MaxK
    /\ g = [cell_size |-> 0, grid_width |-> 0, grid_height |-> 0, grid_depth |-> 0,
            grid_size |-> 0, grid_data |-> <<>>]
    /\ active_list = <<>>
    /\ point_list = <<>>
    /\ sample_index = 0
    /\ index = 0
    /\ found_sample = FALSE
    /\ i = 0
    /\ pc = "start"
    /\ outcome = NoCall

Next ==
    \/ Start2d
    \/ ChooseParent2d
    \/ Attempt2d
    \/ Exhaust2d
    \/ Return2d
    \/ Start3d
    \/ ChooseParent3d
    \/ Attempt3d
    \/ Exhaust3d
    \/ Return3d

Spec == Init /\ [][Next]_vars

\* A call runs without blocking: a step that can be taken is taken.
FairSpec == Spec /\ WF_vars(Next)

----------------------------------------------------------------------------
\* A client of struct grid: it builds a grid and calls get and set with any cell
\* coordinates, MaxOver cells beyond the grid on either side included.  grid_data[n]
\* with n outside the vector is undefined behaviour: the read yields whatever lies
\* there or the call crashes, the write lands outside the vector or the call crashes.

CellRange(n) == (0 - MaxOver) .. (n - 1 + MaxOver)

\* The values a client stores: empty, or a sample index.
CellValues == {NO_SAMPLE, 0}

in_range_2d(gr, x, y) ==
    0 <= x /\ x < gr.grid_width /\ 0 <= y /\ y < gr.grid_height

in_range_3d(gr, x, y, z) ==
    /\ 0 <= x /\ x < gr.grid_width
    /\ 0 <= y /\ y < gr.grid_height
    /\ 0 <= z /\ z < gr.grid_depth

\* What reading grid_data[n] gives.
ReadOutcomes(gr, n, inr) ==
    IF n \in DOMAIN gr.grid_data
    THEN {[op |-> "get", in_range |-> inr, result |-> "value", value |-> gr.grid_data[n]]}
    ELSE {[op |-> "get", in_range |-> inr, result |-> "value", value |-> v] : v \in CellValues}
         \cup {[op |-> "get", in_range |-> inr, result |-> "crash", value |-> NO_SAMPLE]}

\* What writing grid_data[n] gives, the vector itself aside.
WriteOutcomes(gr, n, inr, v) ==
    IF n \in DOMAIN gr.grid_data
    THEN {[op |-> "set", in_range |-> inr, result |-> "stored", value |-> v]}
    ELSE {[op |-> "set", in_range |-> inr, result |-> "stray", value |-> v],
          [op |-> "set", in_range |-> inr, result |-> "crash", value |-> v]}

\* The vector after grid_data[n] = v.
Written(gr, n, v) ==
    IF n \in DOMAIN gr.grid_data
    THEN [gr EXCEPT !.grid_data = [gr.grid_data EXCEPT ![n] = v]]
    ELSE gr

GridGet2d ==
    /\ pc = "grid" /\ fn = "2d"
    /\ \E x \in CellRange(g.grid_width), y \in CellRange(g.grid_height) :
        outcome' \in ReadOutcomes(g, flat2(g, x, y), in_range_2d(g, x, y))
    /\ UNCHANGED <<fn, dimensions, r2, k, g, pc>>
    /\ UNCHANGED sampler_vars

GridSet2d ==
    /\ pc = "grid" /\ fn = "2d"
    /\ \E value \in CellValues, x \in CellRange(g.grid_width), y \in CellRange(g.grid_height) :
        /\ outcome' \in WriteOutcomes(g, flat2(g, x, y), in_range_2d(g, x, y), value)
        /\ g' = Written(g, flat2(g, x, y), value)
    /\ UNCHANGED <<fn, dimensions, r2, k, pc>>
    /\ UNCHANGED sampler_vars

GridGet3d ==
    /\ pc = "grid" /\ fn = "3d"
    /\ \E x \in CellRange(g.grid_width), y \in CellRange(g.grid_height),
          z \in CellRange(g.grid_depth) :
        outcome' \in ReadOutcomes(g, flat3(g, x, y, z), in_range_3d(g, x, y, z))
    /\ UNCHANGED <<fn, dimensions, r2, k, g, pc>>
    /\ UNCHANGED sampler_vars

GridSet3d ==
    /\ pc = "grid" /\ fn = "3d"
    /\ \E value \in CellValues, x \in CellRange(g.grid_width), y \in CellRange(g.grid_height),
          z \in CellRange(g.grid_depth) :
        /\ outcome' \in WriteOutcomes(g, flat3(g, x, y, z), in_range_3d(g, x, y, z), value)
        /\ g' = Written(g, flat3(g, x, y, z), value)
    /\ UNCHANGED <<fn, dimensions, r2, k, pc>>
    /\ UNCHANGED sampler_vars

\* The grids a client builds: those of the sampler calls, and two 3D grids whose
\* width, height and depth differ (3 x 2 x 1 and 1 x 2 x 3 cells).
GridCalls ==
    Calls \cup
    {[fn |-> "3d", dimensions |-> vec3(3 * Cell3, 2 * Cell3, Cell3), r2 |-> 2 * Cell3 * Cell3],
     [fn |-> "3d", dimensions |-> vec3(Cell3, 2 * Cell3, 3 * Cell3), r2 |-> 2 * Cell3 * Cell3]}

\* The client has built its grid with one of the constructors.
GridInit ==
    /\ \E c \in GridCalls :
        /\ fn = c.fn
        /\ dimensions = c.dimensions
        /\ r2 = c.r2
        /\ g = IF c.fn = "2d" THEN grid_vec2(c.dimensions, c.r2) ELSE grid_vec3(c.dimensions, c.r2)
        /\ sample_world_coordinates = IF c.fn = "2d" THEN vec2(0, 0) ELSE vec3(0, 0, 0)
    /\ k = 0
    /\ active_list = <<>>
    /\ point_list = <<>>
    /\ sample_index = 0
    /\ index = 0
    /\ found_sample = FALSE
    /\ i = 0
    /\ pc = "grid"
    /\ outcome = NoCall

GridNext ==
    \/ GridGet2d
    \/ GridSet2d
    \/ GridGet3d
    \/ GridSet3d

GridSpec == GridInit /\ [][GridNext]_vars

----------------------------------------------------------------------------
\* The configurations the specification of the samplers calls valid.

ValidConfig ==
    /\ r2 > 0
    /\ k >= 0
    /\ dimensions.x > 0 /\ dimensions.y > 0
    /\ (fn = "3d" => dimensions.z > 0)

distance2(a, b) == IF fn = "2d" THEN distance2_vec2(a, b) ELSE distance2_vec3(a, b)

\* C1: in every state of a call with a valid configuration, every two distinct points
\* of the point store are at squared distance >= r * r.
C1_MinimumSeparation ==
    ValidConfig =>
        \A a \in 1 .. Len(point_list) : \A b \in 1 .. Len(point_list) :
            a # b => distance2(point_list[a], point_list[b]) >= r2

\* The cell convert_to_grid_coordinates gives a point, and what the grid holds there.
cell_of(gr, w) ==
    IF fn = "2d" THEN convert_to_grid_coordinates_vec2(gr, w)
    ELSE convert_to_grid_coordinates_vec3(gr, w)

get_at(gr, c) == IF fn = "2d" THEN get2(gr, c.x, c.y) ELSE get3(gr, c.x, c.y, c.z)

InDomain(w) ==
    /\ 0 <= w.x /\ w.x < dimensions.x
    /\ 0 <= w.y /\ w.y < dimensions.y
    /\ (fn = "3d" => 0 <= w.z /\ w.z < dimensions.z)

\* The lattice points of the domain box.
DomainPoints ==
    IF fn = "2d"
    THEN {vec2(x, y) : x \in 0 .. (dimensions.x - 1), y \in 0 .. (dimensions.y - 1)}
    ELSE {vec3(x, y, z) : x \in 0 .. (dimensions.x - 1), y \in 0 .. (dimensions.y - 1),
                          z \in 0 .. (dimensions.z - 1)}

\* C2: every point of the point store, the seed included, has each coordinate in
\* [0, extent) of its axis, in the 2D and in the 3D sampler.
C2_PointsInDomain == \A j \in 1 .. Len(point_list) : InDomain(point_list[j])

\* A point other than the seed was accepted on the last lattice line of the domain.
C2_Witness ==
    \E j \in 2 .. Len(point_list) :
        point_list[j].x = dimensions.x - 1 \/ point_list[j].y = dimensions.y - 1

\* C3: a call with a valid configuration, k = 1 included, eventually leaves the main
\* loop with an empty active set and returns a point store that holds at least the seed.
C3_Termination ==
    ValidConfig => <>(pc = "done" /\ active_list = <<>> /\ Len(point_list) >= 1)

\* A call with k = 1 has returned more than the seed.
C3_Witness == pc = "done" /\ k = 1 /\ Len(point_list) >= 2 /\ active_list = <<>>

\* C4: a call with r <= 0, an extent <= 0 or k < 0 ends in a configuration error with
\* no grid built, no point drawn and nothing recorded.
C4_ConfigurationError ==
    ~ValidConfig =>
        /\ pc \in {"start", "error"}
        /\ point_list = <<>> /\ active_list = <<>>
        /\ g.grid_size = 0 /\ sample_index = 0

\* C5: with k = 0 no attempt ever runs (i stays 0, nothing is found), the point store
\* never holds more than the seed, and the call returns exactly the seed after index 0
\* was erased from the active list in the first iteration.
C5_KZeroOnlySeed ==
    k = 0 =>
        /\ i = 0 /\ ~found_sample /\ index = 0
        /\ Len(point_list) <= 1
        /\ (pc \in {"loop", "attempt"} =>
                Len(point_list) = 1 /\ active_list \in {<<0>>, <<>>})
        /\ (pc = "attempt" => active_list = <<0>>)
        /\ (pc = "done" =>
                /\ Len(point_list) = 1 /\ active_list = <<>> /\ sample_index = 1
                /\ point_list[1] = sample_world_coordinates
                /\ get_at(g, cell_of(g, point_list[1])) = 0)

\* A call with k = 0 has returned.
C5_Witness == k = 0 /\ pc = "done" /\ Len(point_list) = 1

\* C6: a main-loop iteration changes the length of the active list by exactly +1, the
\* point store growing by one, or by exactly -1 after the attempts ran out, the point
\* store unchanged; inside an iteration and at its start neither length changes.
C6_ActiveSetDelta ==
    [][LET da == Len(active_list') - Len(active_list)
           dp == Len(point_list') - Len(point_list)
       IN  /\ (pc = "loop" /\ pc' = "attempt") => (da = 0 /\ dp = 0)
           /\ (pc = "attempt" /\ pc' = "attempt") => (da = 0 /\ dp = 0)
           /\ pc = "attempt" => pc' \in {"attempt", "loop"}
           /\ (pc = "attempt" /\ pc' = "loop") =>
                \/ da = 1 /\ dp = 1 /\ found_sample'
                \/ da = 0 - 1 /\ dp = 0 /\ ~found_sample' /\ ~(i < k)
           /\ (pc = "loop" /\ pc' = "done") => (da = 0 /\ dp = 0)]_vars

\* Iterations of both kinds have ended: points were accepted and entries erased.
C6_Witness ==
    pc = "loop" /\ Len(point_list) >= 3 /\ Len(active_list) = 1 /\ k >= 1

\* C7: the point store is append-only and in acceptance order: sample_index is its
\* length, index 0 is the seed, an acceptance appends one point whose index (the old
\* length) is what is appended to the active list and written to the point's grid
\* cell, and no entry already stored is changed or removed.
C7_AppendOnly ==
    /\ [](pc # "start" => sample_index = Len(point_list) /\ Len(point_list) >= 1)
    /\ [][/\ Len(point_list') >= Len(point_list)
          /\ Len(point_list') <= Len(point_list) + 1
          /\ \A j \in 1 .. Len(point_list) : point_list'[j] = point_list[j]
          /\ pc = "start" =>
                /\ Len(point_list') = 1 /\ point_list'[1] = sample_world_coordinates'
                /\ active_list' = <<0>>
                /\ get_at(g', cell_of(g', point_list'[1])) = 0
          /\ Len(point_list') = Len(point_list) + 1 =>
                /\ active_list' = Append(active_list, Len(point_list))
                /\ get_at(g', cell_of(g', point_list'[Len(point_list')])) = Len(point_list)]_vars

\* The seed and two further points are stored.
C7_Witness == Len(point_list) >= 3 /\ sample_index = 3 /\ pc = "loop"

\* C10 as claimed: when the sampler has returned, no point of the domain box is at
\* distance >= r from every accepted point.
C10_Maximal ==
    (ValidConfig /\ pc = "done") =>
        ~\E q \in DomainPoints :
            \A j \in 1 .. Len(point_list) : distance2(point_list[j], q) >= r2

\* C10, amended: the returned set need not be maximal; what holds when the sampler
\* has returned is that the active list is empty, and an entry leaves the active list
\* only by the erase that follows a for loop that ran out without a sample.
C10_Retired ==
    /\ [](pc = "done" => active_list = <<>> /\ Len(point_list) >= 1)
    /\ [][Len(active_list') < Len(active_list) =>
            /\ pc = "attempt" /\ ~(i < k) /\ ~found_sample
            /\ Len(active_list') = Len(active_list) - 1
            /\ point_list' = point_list]_vars

\* A call with the largest k has returned and a point of the domain is still at
\* distance >= r from every accepted point.
C10_Witness ==
    /\ pc = "done" /\ k = MaxK /\ Len(point_list) >= 2
    /\ \E q \in DomainPoints :
        \A j \in 1 .. Len(point_list) : distance2(point_list[j], q) >= r2

\* C8: a grid get or set with a cell coordinate out of range ends in an error outcome;
\* it neither returns a value nor stores one.
C8_BoundsError ==
    (outcome.op # "none" /\ ~outcome.in_range) => outcome.result = "error"

\* Within one cell step of each other on every axis.
within_one_step(a, b) ==
    /\ a.x - b.x \in (0 - 1) .. 1
    /\ a.y - b.y \in (0 - 1) .. 1
    /\ (fn = "3d" => a.z - b.z \in (0 - 1) .. 1)

\* The candidate drawn with offset o around the current parent.
candidate(o) ==
    IF fn = "2d"
    THEN vec2(sample_world_coordinates.x + o.x, sample_world_coordinates.y + o.y)
    ELSE vec3(sample_world_coordinates.x + o.x, sample_world_coordinates.y + o.y,
              sample_world_coordinates.z + o.z)

Offsets == IF fn = "2d" THEN Offsets2d(r2) ELSE Offsets3d(r2)

\* C11: in every iteration the parent around which candidates are generated is the
\* point of the active-set member at the drawn position, point_list[active_list[index]],
\* the entry an exhaustion erases.
C11_ParentIsSelectedMember ==
    (ValidConfig /\ pc = "attempt") =>
        sample_world_coordinates = point_list[active_list[index + 1] + 1]

\* C12: the point used as parent of an iteration belongs to an index still in the
\* active list: a removed index never spawns again, and the index an exhaustion
\* removes is that of the point the failed attempts were generated around.
C12_RetiredNeverParent ==
    (ValidConfig /\ pc = "attempt") =>
        \E pos \in 1 .. Len(active_list) :
            point_list[active_list[pos] + 1] = sample_world_coordinates

\* C13: for every in-bounds candidate of the current parent, every stored point
\* closer than r to it lies in a cell within one step of the candidate's cell.
C13_ConflictsWithinOneStep ==
    (ValidConfig /\ pc = "attempt") =>
        \A o \in Offsets :
            InDomain(candidate(o)) =>
                \A j \in 1 .. Len(point_list) :
                    distance2(point_list[j], candidate(o)) < r2 =>
                        within_one_step(cell_of(g, point_list[j]), cell_of(g, candidate(o)))

\* The dimensionality of the call.
Dimensionality == IF fn = "2d" THEN 2 ELSE 3

\* C14: the grid of a d-dimensional call has d * cell_size^2 = r^2, for d = 2 and d = 3.
C14_CellSize ==
    (ValidConfig /\ pc # "start") => Dimensionality * g.cell_size * g.cell_size = r2

\* The flat indices whose cell differs between two grids.
changed_cells(a, b) == {n \in DOMAIN a.grid_data : a.grid_data[n] # b.grid_data[n]}

Range(list) == {list[pos] : pos \in 1 .. Len(list)}

\* C15: once the grid is built, a step writes at most one cell, only a cell that is
\* empty, and never back to empty: no occupied cell is overwritten or reset.
C15_CellWrittenOnce ==
    [][pc # "start" =>
        /\ DOMAIN g'.grid_data = DOMAIN g.grid_data
        /\ Cardinality(changed_cells(g, g')) <= 1
        /\ \A n \in changed_cells(g, g') :
            g.grid_data[n] = NO_SAMPLE /\ g'.grid_data[n] # NO_SAMPLE]_vars

\* An attempt was rejected while a candidate of the parent falls, in bounds, into an
\* occupied cell, and three cells are occupied.
C15_Witness ==
    /\ pc = "attempt" /\ i >= 1 /\ Len(point_list) >= 3
    /\ \E o \in Offsets :
        /\ InDomain(candidate(o))
        /\ get_at(g, cell_of(g, candidate(o))) # NO_SAMPLE

\* C16: the active list never holds an index twice and holds only indices below the
\* length of the point store; the only value ever inserted is the index of the point
\* just accepted, which is above every index inserted before, so a removed index
\* never comes back.
C16_ActiveOnce ==
    /\ [](/\ \A a \in 1 .. Len(active_list) : \A b \in 1 .. Len(active_list) :
                a # b => active_list[a] # active_list[b]
          /\ \A a \in 1 .. Len(active_list) :
                0 <= active_list[a] /\ active_list[a] < Len(point_list))
    /\ [][\A v \in Range(active_list') \ Range(active_list) :
            v = Len(point_list) /\ Len(point_list') = Len(point_list) + 1]_vars

\* Indices were inserted and removed: sample 0 is gone, samples 1 and 2 are active.
C16_Witness == Len(point_list) = 3 /\ Range(active_list) = {1, 2}

\* The cell coordinates of a grid that are in range.
Cells(gr) ==
    IF gr.grid_depth < 0
    THEN {ivec2(x, y) : x \in 0 .. (gr.grid_width - 1), y \in 0 .. (gr.grid_height - 1)}
    ELSE {ivec3(x, y, z) : x \in 0 .. (gr.grid_width - 1), y \in 0 .. (gr.grid_height - 1),
                           z \in 0 .. (gr.grid_depth - 1)}

\* The flat index get and set use for a cell.
flat_of(gr, c) == IF gr.grid_depth < 0 THEN flat2(gr, c.x, c.y) ELSE flat3(gr, c.x, c.y, c.z)

occupied(gr) == {n \in DOMAIN gr.grid_data : gr.grid_data[n] # NO_SAMPLE}

\* C19: once the seed is recorded, the cell of every stored point holds that point's
\* index, an occupied cell is the cell of the point whose index it holds, the number of
\* occupied cells is the number of stored points, and that number is at most grid_size.
C19_GridMatchesStore ==
    pc \in {"loop", "attempt", "done"} =>
        /\ \A j \in 1 .. Len(point_list) : get_at(g, cell_of(g, point_list[j])) = j - 1
        /\ \A n \in occupied(g) :
            /\ g.grid_data[n] + 1 \in 1 .. Len(point_list)
            /\ flat_of(g, cell_of(g, point_list[g.grid_data[n] + 1])) = n
        /\ Cardinality(occupied(g)) = Len(point_list)
        /\ Len(point_list) <= g.grid_size

\* Three points are stored in three cells.
C19_Witness == Len(point_list) = 3 /\ Cardinality(occupied(g)) = 3 /\ pc = "done"

\* C17: on the in-range cells of a grid the flat index of get and set lies in
\* [0, grid_size) and is different for different cells, so an in-range set changes
\* what get returns for at most the cell it was called on.
C17_FlatIndexInjective ==
    /\ [](\A a \in Cells(g) :
            /\ 0 <= flat_of(g, a) /\ flat_of(g, a) < g.grid_size
            /\ \A b \in Cells(g) : a # b => flat_of(g, a) # flat_of(g, b))
    /\ [][(outcome'.op = "set" /\ outcome'.in_range) =>
            Cardinality({c \in Cells(g) :
                g'.grid_data[flat_of(g', c)] # g.grid_data[flat_of(g, c)]}) <= 1]_vars

\* In a 3D grid whose width and depth differ, an in-range set has stored an index and
\* another cell is still empty.
C17_Witness ==
    /\ pc = "grid" /\ fn = "3d" /\ g.grid_width # g.grid_depth
    /\ outcome.op = "set" /\ outcome.in_range /\ outcome.value = 0
    /\ \E a \in Cells(g) : \E b \in Cells(g) :
        g.grid_data[flat_of(g, a)] = 0 /\ g.grid_data[flat_of(g, b)] = NO_SAMPLE

====
